---- MODULE Spec2Model ----
(***************************************************************************)
(* State-machine model of app/routers/trainers.py: the trainers router of  *)
(* the gym management API.  The relational tables the router reads and     *)
(* writes are sets of rows.  A handler is an operator from the caller, the *)
(* request and the tables to the set of results it can produce (status,    *)
(* returned row, rows of the table it writes) on the rows it reads.  A     *)
(* request is several steps, one per database round trip: each query of    *)
(* the handler with the checks that follow it, its commit, its refresh,    *)
(* its lookups for the response; two requests are in flight together and   *)
(* their steps interleave.                                                 *)
(***************************************************************************)
EXTENDS Integers, FiniteSets, Sequences, TLC

\* ------------------------------------------------------------------ bounds
\* Rows a table may receive before requests that would insert are no longer
\* explored (primary keys are never reused).
MaxSessions == 2
\* Sessions created while attendance is explored.
MaxBookable == 1
MaxAttendance == 2
\* Diet and exercise plans together.
MaxPlans == 2
MaxTrainers == 2
\* Rows of all tables together while the routes that write are explored
\* together.
MaxRows == 2

\* ------------------------------------------------------- callers and inputs
\* A nullable column / attribute that is NULL / None.
NoBranch == "none"

\* utils.get_current_user yielding no user.
NoCaller == [id |-> 0, role |-> "anonymous", branch |-> NoBranch]

Caller(id, role, branch) == [id |-> id, role |-> role, branch |-> branch]

\* Caller contexts (schemas.UserResponse: id, role, branch).  Trainer 1 appears
\* with branch X and, after a transfer, with branch Y; trainer 3 and the
\* superadmin have no branch; admin 7 holds a token but has no row in users.
Callers ==
  { Caller(1, "trainer", "X"), Caller(1, "trainer", "Y"),
    Caller(2, "trainer", "X"), Caller(3, "trainer", NoBranch),
    Caller(4, "member", "X"), Caller(5, "member", "X"),
    Caller(6, "member", "Y"), Caller(7, "admin", "X"),
    Caller(8, "superadmin", NoBranch) }

\* The requests each specification explores come from these callers, or carry
\* no valid credentials.
SessionCallers ==
  { Caller(1, "trainer", "X"), Caller(1, "trainer", "Y"),
    Caller(2, "trainer", "X"), Caller(3, "trainer", NoBranch),
    Caller(4, "member", "X"), Caller(7, "admin", "X"), NoCaller }

AttendanceCallers ==
  { Caller(1, "trainer", "X"), Caller(1, "trainer", "Y"),
    Caller(2, "trainer", "X"), Caller(4, "member", "X"),
    Caller(6, "member", "Y"), Caller(7, "admin", "X"), NoCaller }

\* The trainers who create the sessions attendance is explored on.
BookableCreators ==
  { Caller(1, "trainer", "X"), Caller(1, "trainer", "Y") }

PlanCallers ==
  { Caller(1, "trainer", "X"), Caller(1, "trainer", "Y"),
    Caller(2, "trainer", "X"), Caller(3, "trainer", NoBranch),
    Caller(4, "member", "X"), NoCaller }

\* Rows of models.User (the router only reads this table).
users ==
  { [id |-> 4, branch |-> "X"],
    [id |-> 5, branch |-> "X"],
    [id |-> 6, branch |-> "Y"],
    [id |-> 8, branch |-> NoBranch] }

\* schemas.SessionScheduleCreate bodies.
SessionPayloads ==
  { [session_name |-> "Yoga", session_date |-> 1, start_time |-> 9,
     end_time |-> 10, max_capacity |-> 10, description |-> "a"],
    [session_name |-> "Spin", session_date |-> 2, start_time |-> 17,
     end_time |-> 18, max_capacity |-> 5, description |-> "b"] }

\* The one body sessions are created with while attendance is explored.
BookableSessionPayloads ==
  {p \in SessionPayloads : p.session_name = "Yoga"}

Dates == {1, 2}
Statuses == {"booked", "attended"}

\* schemas.SessionAttendanceCreate bodies.
AttendancePayloads ==
  [user_id : {4, 5, 6}, status : Statuses, attendance_date : Dates]

\* schemas.DietPlanCreate / schemas.ExercisePlanCreate bodies; user 9 does not
\* exist.
PlanPayloads ==
  { [user_id |-> u, title |-> b[1], description |-> b[2], expiry_date |-> b[3]] :
      u \in {4, 6, 8, 9}, b \in {<<"cut", "a", 1>>, <<"bulk", "b", 2>>} }

\* An optional query parameter that is absent (None).
NoParam == -1

\* The user_id query parameter: absent, 0 (an int the handlers' "if user_id:"
\* takes for absent), or a user id.
UserIdParams == {NoParam, 0, 4, 5}

\* The attendance_date query parameter: absent or a date.
DateParams == {NoParam} \cup Dates

\* Path parameters: every id a table can hold, and one beyond.
SessionIds == 1..(MaxSessions + 1)
BookableSessionIds == 1..(MaxBookable + 1)
AttendanceIds == 1..(MaxAttendance + 1)
PlanIds == 1..(MaxPlans + 1)
TrainerIds == 1..(MaxTrainers + 1)

\* -------------------------------------------------------------------- state
VARIABLES
  sessions,        \* rows of models.SessionSchedule
  attendance,      \* rows of models.SessionAttendance
  diet_plans,      \* rows of models.DietPlan
  exercise_plans,  \* rows of models.ExercisePlan
  trainers,        \* rows of models.Trainer
  next_id,         \* next primary key of each table
  origin,          \* history: who created each live session / plan, and how
  last,            \* the latest request: handler, caller and response
  reqs             \* the requests in flight and what their units of work hold

vars == <<sessions, attendance, diet_plans, exercise_plans, trainers,
          next_id, origin, last, reqs>>

\* The latest request and its response: handler, caller, HTTP status, the id of
\* the row returned (0: none), the ids of the rows of a list returned and, for
\* a successful mark_session_attendance, the (session_id, user_id,
\* attendance_date) it was called with.
Response(op, c, code, rid, key) ==
  [op |-> op, by |-> c, code |-> code, rid |-> rid, key |-> key, items |-> {}]

\* A 2xx status: the handler returned instead of raising.
Succeeded(r) == r.code \in {200, 204}

\* A handler's result.  rows: the rows of the table it writes, as committed;
\* created: a row was inserted; origin: the history after the request.
Result(code, rid, key, rows, created, org) ==
  [code |-> code, rid |-> rid, key |-> key, rows |-> rows,
   created |-> created, origin |-> org]

\* The result of a handler that returns a list: items are the rows returned,
\* key the path parameter of the request; nothing is written.
Listed(key, items, rows) ==
  [code |-> 200, rid |-> 0, key |-> key, rows |-> rows, created |-> FALSE,
   origin |-> origin, items |-> items]

\* Python truthiness of an optional int parameter: None and 0 are false.
Truthy(param) == param # NoParam /\ param # 0

\* raise HTTPException(status_code = code) before anything was committed.
Raise(code, rows) ==
  Result(code, 0, <<>>, rows, FALSE, origin)

\* db.commit() of the rows of one table.
Write(table, rows) ==
  /\ sessions' = IF table = "sessions" THEN rows ELSE sessions
  /\ attendance' = IF table = "attendance" THEN rows ELSE attendance
  /\ diet_plans' = IF table = "diet_plans" THEN rows ELSE diet_plans
  /\ exercise_plans' = IF table = "exercise_plans" THEN rows ELSE exercise_plans
  /\ trainers' = IF table = "trainers" THEN rows ELSE trainers

\* db.delete(row) and db.commit(): the persistence engine's delete removes the
\* row it is given; rows of other tables that refer to it are left as they
\* are.
db_delete(rows, row) == rows \ {row}

\* The result r of a request on the path parameter id, with the id recorded.
OnPath(r, id) == [r EXCEPT !.key = <<id>>]

\* ------------------------------------------------------------ dependencies
\* 200 stands for "the dependency returned the caller".
get_current_active_user(c) ==
  IF c = NoCaller THEN 401 ELSE 200

\* (the variant of get_current_trainer does not look at the role)
get_current_trainer_any_role(c) == get_current_active_user(c)

get_current_trainer(c) ==
  IF get_current_active_user(c) # 200 THEN get_current_active_user(c)
  ELSE IF c.role # "trainer" THEN 403
  ELSE 200

get_current_admin_or_superadmin(c) ==
  IF get_current_active_user(c) # 200 THEN get_current_active_user(c)
  ELSE IF c.role \notin {"admin", "superadmin"} THEN 403
  ELSE 200

\* ----------------------------------------------------------------- sessions
\* models.SessionSchedule(...) as create_session builds it.
NewSession(c, p, id) ==
  [id |-> id, trainer_id |-> c.id, session_name |-> p.session_name,
   session_date |-> p.session_date, start_time |-> p.start_time,
   end_time |-> p.end_time, branch_name |-> c.branch,
   max_capacity |-> p.max_capacity, description |-> p.description]

\* The six assignments of update_session (the variant builds the row anew from
\* the payload, which carries no branch).
UpdatedSessionRebuilt(s, p) ==
  [id |-> s.id, trainer_id |-> s.trainer_id, session_name |-> p.session_name,
   session_date |-> p.session_date, start_time |-> p.start_time,
   end_time |-> p.end_time, branch_name |-> NoBranch,
   max_capacity |-> p.max_capacity, description |-> p.description]

UpdatedSession(s, p) ==
  [s EXCEPT !.session_name = p.session_name, !.session_date = p.session_date,
            !.start_time = p.start_time, !.end_time = p.end_time,
            !.max_capacity = p.max_capacity, !.description = p.description]

\* query(SessionSchedule).filter(id == session_id, trainer_id == caller.id)
\* (the variant drops the trainer_id filter).
AnySessionById(c, session_id) ==
  {s \in sessions : s.id = session_id}

OwnSession(c, session_id) ==
  {s \in sessions : s.id = session_id /\ s.trainer_id = c.id}

\* query(SessionSchedule).filter(id == session_id)
SessionById(session_id) ==
  {s \in sessions : s.id = session_id}

\* The history record of a session: the creating trainer and their branch.
SessionOrigin(id, c) ==
  [kind |-> "session", id |-> id, by |-> c.id, by_branch |-> c.branch,
   user_id |-> 0, user_branch |-> NoBranch]

\* The history without the record of a deleted row.
Forget(kind, id) ==
  {o \in origin : ~(o.kind = kind /\ o.id = id)}

create_session(c, p) ==
  IF get_current_trainer(c) # 200 THEN {Raise(get_current_trainer(c), sessions)}
  ELSE IF c.branch = NoBranch THEN {Raise(400, sessions)}
  ELSE {Result(200, next_id.sessions, <<>>,
               sessions \cup {NewSession(c, p, next_id.sessions)}, TRUE,
               origin \cup {SessionOrigin(next_id.sessions, c)})}

get_trainer_sessions(c) ==
  IF get_current_trainer(c) # 200 THEN {Raise(get_current_trainer(c), sessions)}
  ELSE {Listed(<<>>, {s \in sessions : s.trainer_id = c.id}, sessions)}

get_public_sessions(c) ==
  IF get_current_active_user(c) # 200
  THEN {Raise(get_current_active_user(c), sessions)}
  ELSE {Listed(<<>>, sessions, sessions)}

update_session(c, session_id, p) ==
  IF get_current_trainer(c) # 200 THEN {Raise(get_current_trainer(c), sessions)}
  ELSE IF OwnSession(c, session_id) = {} THEN {Raise(404, sessions)}
  ELSE {Result(200, db_session.id, <<>>,
               (sessions \ {db_session}) \cup {UpdatedSession(db_session, p)},
               FALSE, origin) :
          db_session \in OwnSession(c, session_id)}

delete_session(c, session_id) ==
  IF get_current_trainer(c) # 200 THEN {Raise(get_current_trainer(c), sessions)}
  ELSE IF OwnSession(c, session_id) = {} THEN {Raise(404, sessions)}
  ELSE {Result(204, 0, <<>>, db_delete(sessions, db_session), FALSE,
               Forget("session", db_session.id)) :
          db_session \in OwnSession(c, session_id)}

\* --------------------------------------------------------------- attendance
\* query(User).filter(id == user_id, branch == branch)
\* (the variant drops the branch filter).
UserAnyBranch(user_id, branch) ==
  {u \in users : u.id = user_id}

UserInBranch(user_id, branch) ==
  {u \in users : u.id = user_id /\ u.branch = branch}

\* query(User).filter(id == user_id)
UserById(user_id) ==
  {u \in users : u.id = user_id}

\* query(SessionAttendance).filter(id == attendance_id)
AttendanceById(attendance_id) ==
  {a \in attendance : a.id = attendance_id}

\* The rows of a table of attendance rows that the existence query of
\* mark_session_attendance matches: filter(session_id ==, user_id ==,
\* attendance_date ==).
Matching(rows, session_id, user_id, attendance_date) ==
  {a \in rows : /\ a.session_id = session_id
                /\ a.user_id = user_id
                /\ a.attendance_date = attendance_date}

ExistingAttendance(session_id, p) ==
  Matching(attendance, session_id, p.user_id, p.attendance_date)

\* models.SessionAttendance(...) as mark_session_attendance builds it.
NewAttendance(session_id, p, id) ==
  [id |-> id, session_id |-> session_id, user_id |-> p.user_id,
   status |-> p.status, attendance_date |-> p.attendance_date]

\* query(SessionSchedule).filter(id ==, trainer_id == caller.id,
\*                               branch_name == caller.branch)
TrainerSession(c, session_id) ==
  {s \in sessions : /\ s.id = session_id
                    /\ s.trainer_id = c.id
                    /\ s.branch_name = c.branch}

\* "attendance_data.user_id != current_user.id" of mark_session_attendance
\* (the variant never objects).
NeverMarksOther(c, p) == FALSE

MarksOther(c, p) == p.user_id # c.id

\* The checks of mark_session_attendance before its existence query: the
\* status raised, or 200 when they all pass (the variant does not compare the
\* session's trainer_id and branch_name with the trainer's).
MarkChecksAnySession(c, session_id, p) ==
  IF get_current_active_user(c) # 200 THEN get_current_active_user(c)
  ELSE IF SessionById(session_id) = {} THEN 404
  ELSE IF c.role = "trainer"
       THEN IF UserInBranch(p.user_id, c.branch) = {} THEN 404 ELSE 200
       ELSE IF MarksOther(c, p) THEN 403
            ELSE IF UserById(c.id) = {} THEN 404 ELSE 200

MarkChecks(c, session_id, p) ==
  IF get_current_active_user(c) # 200 THEN get_current_active_user(c)
  ELSE IF SessionById(session_id) = {} THEN 404
  ELSE LET db_session == CHOOSE s \in SessionById(session_id) : TRUE IN
       IF c.role = "trainer"
       THEN IF db_session.trainer_id # c.id \/ db_session.branch_name # c.branch
            THEN 403
            ELSE IF UserInBranch(p.user_id, c.branch) = {} THEN 404 ELSE 200
       ELSE IF MarksOther(c, p) THEN 403
            ELSE IF UserById(c.id) = {} THEN 404 ELSE 200

MarkKey(session_id, p) == <<session_id, p.user_id, p.attendance_date>>

\* "existing_attendance.status = attendance_data.status" and commit (the
\* variant returns the record without the assignment).
MarkExistingUnassigned(existing_attendance, session_id, p) ==
  Result(200, existing_attendance.id, MarkKey(session_id, p), attendance,
         FALSE, origin)

MarkExisting(existing_attendance, session_id, p) ==
  Result(200, existing_attendance.id, MarkKey(session_id, p),
         (attendance \ {existing_attendance})
           \cup {[existing_attendance EXCEPT !.status = p.status]},
         FALSE, origin)

\* db.add(new_attendance) and commit.
MarkNew(session_id, p) ==
  Result(200, next_id.attendance, MarkKey(session_id, p),
         attendance \cup {NewAttendance(session_id, p, next_id.attendance)},
         TRUE, origin)

\* The existence query and what follows it: .first() of a filter without
\* ORDER BY is any one of the matching rows.
MarkWrite(session_id, p) ==
  IF ExistingAttendance(session_id, p) # {}
  THEN {MarkExisting(existing_attendance, session_id, p) :
          existing_attendance \in ExistingAttendance(session_id, p)}
  ELSE {MarkNew(session_id, p)}

\* The handler when no other request runs between its queries.
mark_session_attendance(c, session_id, p) ==
  IF MarkChecks(c, session_id, p) # 200
  THEN {Raise(MarkChecks(c, session_id, p), attendance)}
  ELSE MarkWrite(session_id, p)

\* .join(models.User, SessionAttendance.user_id == User.id): the rows whose
\* user exists.
JoinUser(rows) ==
  {a \in rows : \E u \in users : u.id = a.user_id}

\* The query get_session_attendance builds for a trainer: the session's
\* records, filtered by user_id and attendance_date when they are truthy.
TrainerAttendanceQuery(session_id, user_id, attendance_date) ==
  {a \in JoinUser(attendance) :
     /\ a.session_id = session_id
     /\ Truthy(user_id) => a.user_id = user_id
     /\ attendance_date # NoParam => a.attendance_date = attendance_date}

\* The query it builds for any other caller: the caller's own records of the
\* session, filtered by attendance_date; the user_id parameter is not read.
OwnAttendanceQuery(c, session_id, attendance_date) ==
  {a \in JoinUser(attendance) :
     /\ a.session_id = session_id
     /\ a.user_id = c.id
     /\ attendance_date # NoParam => a.attendance_date = attendance_date}

get_session_attendance(c, session_id, user_id, attendance_date) ==
  IF get_current_active_user(c) # 200
  THEN {Raise(get_current_active_user(c), attendance)}
  ELSE IF SessionById(session_id) = {} THEN {Raise(404, attendance)}
  ELSE {IF c.role = "trainer"
        THEN IF db_session.trainer_id # c.id \/ db_session.branch_name # c.branch
             THEN Raise(403, attendance)
             ELSE Listed(<<session_id>>,
                         TrainerAttendanceQuery(session_id, user_id,
                                                attendance_date),
                         attendance)
        ELSE Listed(<<session_id>>,
                    OwnAttendanceQuery(c, session_id, attendance_date),
                    attendance) :
          db_session \in SessionById(session_id)}

\* The checks of update_session_attendance on the fetched row a.
UpdateAttendanceChecks(c, a, p) ==
  IF c.role = "trainer"
  THEN IF TrainerSession(c, a.session_id) = {} THEN 403
       ELSE IF p.user_id # a.user_id /\ UserInBranch(p.user_id, c.branch) = {}
            THEN 404
            ELSE 200
  ELSE IF a.user_id # c.id THEN 403
       ELSE IF p.user_id # c.id THEN 403
       ELSE 200

\* The assignments of update_session_attendance: user_id (trainer only, when it
\* differs), status, attendance_date.
UpdatedAttendance(c, a, p) ==
  [a EXCEPT !.user_id = IF c.role = "trainer" THEN p.user_id ELSE @,
            !.status = p.status,
            !.attendance_date = p.attendance_date]

update_session_attendance(c, attendance_id, p) ==
  IF get_current_active_user(c) # 200
  THEN {Raise(get_current_active_user(c), attendance)}
  ELSE IF AttendanceById(attendance_id) = {} THEN {Raise(404, attendance)}
  ELSE {IF UpdateAttendanceChecks(c, db_attendance, p) # 200
        THEN Raise(UpdateAttendanceChecks(c, db_attendance, p), attendance)
        ELSE Result(200, db_attendance.id, <<>>,
                    (attendance \ {db_attendance})
                      \cup {UpdatedAttendance(c, db_attendance, p)},
                    FALSE, origin) :
          db_attendance \in AttendanceById(attendance_id)}

\* The checks of delete_session_attendance on the fetched row a (the variant
\* answers "not found" where the caller may not delete the record, as the
\* session and plan routes do).
DeleteAttendanceChecksHiding(c, a) ==
  IF c.role = "trainer"
  THEN IF TrainerSession(c, a.session_id) = {} THEN 404 ELSE 200
  ELSE IF a.user_id # c.id THEN 404 ELSE 200

DeleteAttendanceChecks(c, a) ==
  IF c.role = "trainer"
  THEN IF TrainerSession(c, a.session_id) = {} THEN 403 ELSE 200
  ELSE IF a.user_id # c.id THEN 403 ELSE 200

delete_session_attendance(c, attendance_id) ==
  IF get_current_active_user(c) # 200
  THEN {Raise(get_current_active_user(c), attendance)}
  ELSE IF AttendanceById(attendance_id) = {} THEN {Raise(404, attendance)}
  ELSE {IF DeleteAttendanceChecks(c, db_attendance) # 200
        THEN Raise(DeleteAttendanceChecks(c, db_attendance), attendance)
        ELSE Result(204, 0, <<>>, db_delete(attendance, db_attendance), FALSE,
                    origin) :
          db_attendance \in AttendanceById(attendance_id)}

\* -------------------------------------------------- diet and exercise plans
\* models.DietPlan(...) / models.ExercisePlan(...) as the create handlers build
\* them.
NewPlan(c, p, id) ==
  [id |-> id, user_id |-> p.user_id, assigned_by_trainer_id |-> c.id,
   title |-> p.title, description |-> p.description,
   expiry_date |-> p.expiry_date, branch_name |-> c.branch]

\* query(Plan).filter(id == plan_id, assigned_by_trainer_id == caller.id,
\*                    branch_name == caller.branch)
OwnPlan(plans, c, plan_id) ==
  {d \in plans : /\ d.id = plan_id
                 /\ d.assigned_by_trainer_id = c.id
                 /\ d.branch_name = c.branch}

\* "plan_update.user_id != db_plan.user_id" (the variant never objects).
SubjectNeverChanged(p, d) == FALSE

SubjectChanged(p, d) == p.user_id # d.user_id

\* The three assignments of update_diet_plan / update_exercise_plan.
UpdatedPlan(d, p) ==
  [d EXCEPT !.title = p.title, !.description = p.description,
            !.expiry_date = p.expiry_date]

\* The history record of a plan: the payload's subject, the assigning trainer
\* and the branch of the users row the lookup returned.
PlanOrigin(kind, id, c, p, user) ==
  [kind |-> kind, id |-> id, by |-> c.id, by_branch |-> c.branch,
   user_id |-> p.user_id, user_branch |-> user.branch]

create_diet_plan(c, p) ==
  IF get_current_trainer(c) # 200 THEN {Raise(get_current_trainer(c), diet_plans)}
  ELSE IF UserInBranch(p.user_id, c.branch) = {} THEN {Raise(404, diet_plans)}
  ELSE {Result(200, next_id.diet_plans, <<>>,
               diet_plans \cup {NewPlan(c, p, next_id.diet_plans)}, TRUE,
               origin \cup {PlanOrigin("diet", next_id.diet_plans, c, p, user)}) :
          user \in UserInBranch(p.user_id, c.branch)}

\* The variant copies every field of the payload onto the row, unchecked.
update_diet_plan_copying(c, plan_id, p) ==
  IF get_current_trainer(c) # 200 THEN {Raise(get_current_trainer(c), diet_plans)}
  ELSE IF OwnPlan(diet_plans, c, plan_id) = {} THEN {Raise(404, diet_plans)}
  ELSE {Result(200, db_diet_plan.id, <<>>,
               (diet_plans \ {db_diet_plan})
                 \cup {[UpdatedPlan(db_diet_plan, p) EXCEPT !.user_id = p.user_id]},
               FALSE, origin) :
          db_diet_plan \in OwnPlan(diet_plans, c, plan_id)}

update_diet_plan(c, plan_id, p) ==
  IF get_current_trainer(c) # 200 THEN {Raise(get_current_trainer(c), diet_plans)}
  ELSE IF OwnPlan(diet_plans, c, plan_id) = {} THEN {Raise(404, diet_plans)}
  ELSE {IF SubjectChanged(p, db_diet_plan) THEN Raise(400, diet_plans)
        ELSE Result(200, db_diet_plan.id, <<>>,
                    (diet_plans \ {db_diet_plan})
                      \cup {UpdatedPlan(db_diet_plan, p)},
                    FALSE, origin) :
          db_diet_plan \in OwnPlan(diet_plans, c, plan_id)}

delete_diet_plan(c, plan_id) ==
  IF get_current_trainer(c) # 200 THEN {Raise(get_current_trainer(c), diet_plans)}
  ELSE IF OwnPlan(diet_plans, c, plan_id) = {} THEN {Raise(404, diet_plans)}
  ELSE {Result(204, 0, <<>>, db_delete(diet_plans, db_diet_plan), FALSE,
               Forget("diet", db_diet_plan.id)) :
          db_diet_plan \in OwnPlan(diet_plans, c, plan_id)}

\* The query of get_trainer_diet_plans / get_trainer_exercise_plans: the plans
\* the caller assigned in the caller's branch whose user exists, filtered by
\* user_id when it is truthy.
TrainerPlansQuery(plans, c, user_id) ==
  {d \in JoinUser(plans) :
     /\ d.assigned_by_trainer_id = c.id
     /\ d.branch_name = c.branch
     /\ Truthy(user_id) => d.user_id = user_id}

get_trainer_diet_plans(c, user_id) ==
  IF get_current_trainer(c) # 200 THEN {Raise(get_current_trainer(c), diet_plans)}
  ELSE {Listed(<<>>, TrainerPlansQuery(diet_plans, c, user_id),
               diet_plans)}

create_exercise_plan(c, p) ==
  IF get_current_trainer(c) # 200
  THEN {Raise(get_current_trainer(c), exercise_plans)}
  ELSE IF UserInBranch(p.user_id, c.branch) = {} THEN {Raise(404, exercise_plans)}
  ELSE {Result(200, next_id.exercise_plans, <<>>,
               exercise_plans \cup {NewPlan(c, p, next_id.exercise_plans)}, TRUE,
               origin \cup {PlanOrigin("exercise", next_id.exercise_plans,
                                       c, p, user)}) :
          user \in UserInBranch(p.user_id, c.branch)}

\* The variant assigns the three fields and commits before it compares user_id.
update_exercise_plan_committing_first(c, plan_id, p) ==
  IF get_current_trainer(c) # 200
  THEN {Raise(get_current_trainer(c), exercise_plans)}
  ELSE IF OwnPlan(exercise_plans, c, plan_id) = {} THEN {Raise(404, exercise_plans)}
  ELSE {Result(IF SubjectChanged(p, db_exercise_plan) THEN 400 ELSE 200,
               IF SubjectChanged(p, db_exercise_plan) THEN 0
               ELSE db_exercise_plan.id,
               <<>>,
               (exercise_plans \ {db_exercise_plan})
                 \cup {UpdatedPlan(db_exercise_plan, p)},
               FALSE, origin) :
          db_exercise_plan \in OwnPlan(exercise_plans, c, plan_id)}

update_exercise_plan(c, plan_id, p) ==
  IF get_current_trainer(c) # 200
  THEN {Raise(get_current_trainer(c), exercise_plans)}
  ELSE IF OwnPlan(exercise_plans, c, plan_id) = {} THEN {Raise(404, exercise_plans)}
  ELSE {IF SubjectChanged(p, db_exercise_plan) THEN Raise(400, exercise_plans)
        ELSE Result(200, db_exercise_plan.id, <<>>,
                    (exercise_plans \ {db_exercise_plan})
                      \cup {UpdatedPlan(db_exercise_plan, p)},
                    FALSE, origin) :
          db_exercise_plan \in OwnPlan(exercise_plans, c, plan_id)}

delete_exercise_plan(c, plan_id) ==
  IF get_current_trainer(c) # 200
  THEN {Raise(get_current_trainer(c), exercise_plans)}
  ELSE IF OwnPlan(exercise_plans, c, plan_id) = {} THEN {Raise(404, exercise_plans)}
  ELSE {Result(204, 0, <<>>, db_delete(exercise_plans, db_exercise_plan), FALSE,
               Forget("exercise", db_exercise_plan.id)) :
          db_exercise_plan \in OwnPlan(exercise_plans, c, plan_id)}

get_trainer_exercise_plans(c, user_id) ==
  IF get_current_trainer(c) # 200
  THEN {Raise(get_current_trainer(c), exercise_plans)}
  ELSE {Listed(<<>>, TrainerPlansQuery(exercise_plans, c, user_id),
               exercise_plans)}

\* ----------------------------------------------------------------- trainers
\* schemas.TrainerCreate bodies.
TrainerPayloads ==
  { [name |-> "T",
     specialization |-> << <<"y", "o", "g", "a">>, <<"h", "i", "i", "t">> >>,
     rating |-> 5,
     experience |-> 3, phone |-> "555", email |-> e, password |-> "pw",
     availability |-> "am", branch_name |-> b] :
      e \in {"a@gym", "b@gym"}, b \in {"X", "Y"} }

\* ",".join(list); a string is the sequence of its characters.
RECURSIVE Join(_)
Join(list) ==
  IF list = <<>> THEN <<>>
  ELSE IF Len(list) = 1 THEN Head(list)
  ELSE Head(list) \o <<",">> \o Join(Tail(list))

\* str.split(",") of the characters left, cur being the piece read so far.
RECURSIVE SplitAt(_, _)
SplitAt(str, cur) ==
  IF str = <<>> THEN <<cur>>
  ELSE IF Head(str) = "," THEN <<cur>> \o SplitAt(Tail(str), <<>>)
  ELSE SplitAt(Tail(str), Append(cur, Head(str)))

\* "t.specialization.split(",") if isinstance(t.specialization, str) and
\* t.specialization else []"
SpecializationList(specialization) ==
  IF specialization # <<>> THEN SplitAt(specialization, <<>>) ELSE <<>>

\* The filter get_trainers applies for the caller's role and branch (the
\* variant applies none).
AllTrainers(c) == trainers

VisibleTrainers(c) ==
  IF c.role = "admin" THEN {t \in trainers : t.branch_name = c.branch}
  ELSE IF c.role = "superadmin" THEN trainers
  ELSE IF c.branch # NoBranch THEN {t \in trainers : t.branch_name = c.branch}
  ELSE trainers

\* utils.get_password_hash: a one-way hash of the password.
get_password_hash(password) == <<"hash", password>>

\* query(Trainer).filter(email == email)
TrainerByEmail(email) ==
  {t \in trainers : t.email = email}

\* query(Trainer).filter(id == trainer_id)
TrainerById(trainer_id) ==
  {t \in trainers : t.id = trainer_id}

\* models.Trainer(...) as add_trainer builds it (the variant takes branch_name
\* from the payload for every caller).
NewTrainerFromPayload(c, p, id) ==
  [id |-> id, name |-> p.name, specialization |-> Join(p.specialization),
   rating |-> p.rating, experience |-> p.experience, phone |-> p.phone,
   email |-> p.email, password |-> get_password_hash(p.password),
   availability |-> p.availability, branch_name |-> p.branch_name]

NewTrainer(c, p, id) ==
  [id |-> id, name |-> p.name, specialization |-> Join(p.specialization),
   rating |-> p.rating, experience |-> p.experience, phone |-> p.phone,
   email |-> p.email, password |-> get_password_hash(p.password),
   availability |-> p.availability,
   branch_name |-> IF c.role = "admin" THEN c.branch ELSE p.branch_name]

\* The nine assignments of update_trainer.
UpdatedTrainer(t, p) ==
  [t EXCEPT !.name = p.name, !.specialization = Join(p.specialization),
            !.rating = p.rating, !.experience = p.experience,
            !.phone = p.phone, !.email = p.email,
            !.password = get_password_hash(p.password),
            !.availability = p.availability, !.branch_name = p.branch_name]

add_trainer(c, p) ==
  IF get_current_admin_or_superadmin(c) # 200
  THEN {Raise(get_current_admin_or_superadmin(c), trainers)}
  ELSE IF TrainerByEmail(p.email) # {} THEN {Raise(400, trainers)}
  ELSE {Result(200, next_id.trainers, <<>>,
               trainers \cup {NewTrainer(c, p, next_id.trainers)}, TRUE, origin)}

get_trainers(c) ==
  IF get_current_active_user(c) # 200
  THEN {Raise(get_current_active_user(c), trainers)}
  ELSE IF c.role = "admin" /\ c.branch = NoBranch THEN {Raise(400, trainers)}
  ELSE {Listed(<<>>,
               {[t EXCEPT !.specialization = SpecializationList(@)] :
                  t \in VisibleTrainers(c)},
               trainers)}

\* The three handlers below declare no caller dependency: the credentials of
\* the request, c, are never looked at.
get_trainer_by_id(c, trainer_id) ==
  IF TrainerById(trainer_id) = {} THEN {Raise(404, trainers)}
  ELSE {Result(200, trainer.id, <<>>, trainers, FALSE, origin) :
          trainer \in TrainerById(trainer_id)}

update_trainer(c, trainer_id, p) ==
  IF TrainerById(trainer_id) = {} THEN {Raise(404, trainers)}
  ELSE {Result(200, db_trainer.id, <<>>,
               (trainers \ {db_trainer}) \cup {UpdatedTrainer(db_trainer, p)},
               FALSE, origin) :
          db_trainer \in TrainerById(trainer_id)}

delete_trainer(c, trainer_id) ==
  IF TrainerById(trainer_id) = {} THEN {Raise(404, trainers)}
  ELSE {Result(200, 0, <<>>, db_delete(trainers, db_trainer), FALSE, origin) :
          db_trainer \in TrainerById(trainer_id)}

\* ------------------------------------------------------ requests in flight
\* A handler is not one step of the database: each of its queries, its commit
\* and its refresh is a round trip, and between two round trips another
\* request can run.  Each request in flight has its own unit of work, which
\* holds the rows it loaded.  A step of the model is one round trip on a table
\* the router writes, together with the checks and assignments that follow
\* it.  A lookup in models.User, which the router never writes, is a step of
\* its own where a query on another table precedes it and its answer differs
\* from that query's (update_session_attendance); elsewhere it is part of the
\* step of the query next to it.
ReqIds == {1, 2}

\* No row.
NoRow == [id |-> 0]

IdleReq == [pc |-> "idle", op |-> "", table |-> "", c |-> NoCaller,
            key |-> <<>>, code |-> 0, kind |-> "", old |-> NoRow,
            new |-> NoRow, oadd |-> {}, odel |-> {}, rid |-> 0,
            p |-> NoRow, items |-> {}]

\* The rows of a table.
Table(table) ==
  CASE table = "sessions" -> sessions
    [] table = "attendance" -> attendance
    [] table = "diet_plans" -> diet_plans
    [] table = "exercise_plans" -> exercise_plans
    [] table = "trainers" -> trainers

\* What the unit of work of a handler that passed its checks holds, res being
\* the handler's result on the rows it read: db.add of a new row, db.delete of
\* the row loaded, or assignments to the row loaded.
WriteKind(rows, res) ==
  IF res.created THEN "insert"
  ELSE IF rows \ res.rows # {} /\ res.rows \ rows = {} THEN "delete"
  ELSE "update"

\* The row the handler loaded, as loaded.
LoadedRow(rows, res) ==
  IF res.created THEN NoRow
  ELSE IF rows \ res.rows # {} THEN CHOOSE x \in rows \ res.rows : TRUE
  ELSE CHOOSE x \in rows : x.id = res.rid

\* The row with the handler's assignments, or the row it adds.
AssignedRow(rows, res) ==
  IF res.rows \ rows # {} THEN CHOOSE x \in res.rows \ rows : TRUE
  ELSE LoadedRow(rows, res)

\* A request that has made a query and has another to make: it holds the row
\* it loaded and the payload or the parameters it was called with.
Querying(op, table, c, key, old, p) ==
  [IdleReq EXCEPT !.pc = "query", !.op = op, !.table = table, !.c = c,
                  !.key = key, !.old = old, !.p = p]

\* A request that passed its checks: it holds the write that its db.commit()
\* will flush.
Holding(op, table, c, key, code, kind, old, new, rid) ==
  [IdleReq EXCEPT !.pc = "commit", !.op = op, !.table = table, !.c = c,
                  !.key = key, !.code = code, !.kind = kind, !.old = old,
                  !.new = new, !.rid = rid]

\* The same, from the result the handler's last query leads to.
Staged(op, table, c, res) ==
  [Holding(op, table, c, res.key, res.code, WriteKind(Table(table), res),
           LoadedRow(Table(table), res), AssignedRow(Table(table), res),
           res.rid)
     EXCEPT !.oadd = res.origin \ origin, !.odel = origin \ res.origin]

\* A request that has the rows it lists and has lookups to make before it
\* returns them.
Listing(op, table, c, key, items) ==
  [IdleReq EXCEPT !.pc = "reply", !.op = op, !.table = table, !.c = c,
                  !.key = key, !.code = 200, !.items = {x.id : x \in items}]

\* The requests in flight that hold a row to insert in the table.
PendingInserts(table) ==
  {r \in ReqIds : /\ reqs[r].pc = "commit" /\ reqs[r].kind = "insert"
                  /\ reqs[r].table = table}

\* The inserts in the table that were committed or are pending.
InsertsBegun(table) ==
  (next_id[table] - 1) + Cardinality(PendingInserts(table))

\* The bound of the exploration on inserts (the code has no such limit): a
\* request reaches its db.add only while fewer inserts than the bound were
\* begun in its table.
HasRoom(table) ==
  CASE table = "sessions" -> InsertsBegun("sessions") < MaxSessions
    [] table = "attendance" -> InsertsBegun("attendance") < MaxAttendance
    [] table \in {"diet_plans", "exercise_plans"} ->
         InsertsBegun("diet_plans") + InsertsBegun("exercise_plans") < MaxPlans
    [] table = "trainers" -> InsertsBegun("trainers") < MaxTrainers

\* A request takes the first free unit of work.
FreeUnit(r) ==
  /\ reqs[r].pc = "idle"
  /\ \A q \in ReqIds : q < r => reqs[q].pc # "idle"

\* raise HTTPException before the handler's first write: the response of a
\* request that holds nothing.
Refuse(op, c, code, key) ==
  /\ last' = Response(op, c, code, 0, key)
  /\ UNCHANGED reqs

\* A handler with one query on the tables the router writes, res being the
\* result the query and the checks lead to: an error is raised at once;
\* otherwise the request holds its pending write.
Begin(r, op, table, c, res) ==
  /\ FreeUnit(r)
  /\ res.created => HasRoom(table)
  /\ IF ~Succeeded(res)
     THEN Refuse(op, c, res.code, res.key)
     ELSE /\ reqs' = [reqs EXCEPT ![r] = Staged(op, table, c, res)]
          /\ UNCHANGED last
  /\ UNCHANGED <<sessions, attendance, diet_plans, exercise_plans, trainers,
                 next_id, origin>>

\* The attributes of the loaded row whose assigned value differs from the
\* loaded one: the unit of work writes these and no others.
ChangedAttributes(q) ==
  {f \in DOMAIN q.old : q.new[f] # q.old[f]}

\* UPDATE ... SET the changed attributes WHERE id = the loaded row's id.
Updated(cur, q) ==
  [f \in DOMAIN cur |-> IF f \in ChangedAttributes(q) THEN q.new[f] ELSE cur[f]]

\* The request ends with a response; its unit of work is closed.
Respond(r, code, rid) ==
  /\ last' = [Response(reqs[r].op, reqs[r].c, code, rid, reqs[r].key)
                EXCEPT !.items = IF code = 200 THEN reqs[r].items ELSE {}]
  /\ reqs' = [reqs EXCEPT ![r] = IdleReq]

\* db.commit() after db.add: the row is inserted under the next primary key.
CommitInsert(r) ==
  LET q == reqs[r]
      id == next_id[q.table] IN
  /\ q.pc = "commit" /\ q.kind = "insert"
  /\ Write(q.table, Table(q.table) \cup {[q.new EXCEPT !.id = id]})
  /\ next_id' = [next_id EXCEPT ![q.table] = @ + 1]
  /\ origin' = origin \cup {[o EXCEPT !.id = id] : o \in q.oadd}
  /\ reqs' = [reqs EXCEPT ![r].pc = "refresh", ![r].rid = id]
  /\ UNCHANGED last

\* db.commit() after assignments: no statement when no attribute changed; an
\* UPDATE of the changed attributes otherwise, which fails (500, rolled back)
\* when the row is gone.
CommitUpdate(r) ==
  LET q == reqs[r]
      cur == {x \in Table(q.table) : x.id = q.old.id} IN
  /\ q.pc = "commit" /\ q.kind = "update"
  /\ IF ChangedAttributes(q) = {}
     THEN /\ reqs' = [reqs EXCEPT ![r].pc = "refresh"]
          /\ UNCHANGED <<sessions, attendance, diet_plans, exercise_plans,
                         trainers, last>>
     ELSE IF cur = {}
     THEN /\ Respond(r, 500, 0)
          /\ UNCHANGED <<sessions, attendance, diet_plans, exercise_plans,
                         trainers>>
     ELSE /\ Write(q.table, (Table(q.table) \ cur)
                              \cup {Updated(x, q) : x \in cur})
          /\ reqs' = [reqs EXCEPT ![r].pc = "refresh"]
          /\ UNCHANGED last
  /\ UNCHANGED <<next_id, origin>>

\* db.delete and db.commit(): a DELETE WHERE id = the loaded row's id, which
\* does not fail when the row is gone; the handler returns.
CommitDelete(r) ==
  LET q == reqs[r] IN
  /\ q.pc = "commit" /\ q.kind = "delete"
  /\ Write(q.table, {x \in Table(q.table) : x.id # q.old.id})
  /\ origin' = origin \ q.odel
  /\ Respond(r, q.code, 0)
  /\ UNCHANGED next_id

\* The handlers that query again after db.refresh, for the user and the
\* trainer their response carries.
QueriesAfterRefresh ==
  { "update_session_attendance", "create_diet_plan", "update_diet_plan",
    "create_exercise_plan", "update_exercise_plan" }

\* db.refresh(row): the row is read again by primary key, which fails (500)
\* when it is gone; the handler then returns, unless it has lookups to make.
Refresh(r) ==
  LET q == reqs[r] IN
  /\ reqs[r].pc = "refresh"
  /\ IF ~ \E x \in Table(q.table) : x.id = q.rid
     THEN Respond(r, 500, 0)
     ELSE IF q.op \in QueriesAfterRefresh
     THEN reqs' = [reqs EXCEPT ![r].pc = "reply"] /\ UNCHANGED last
     ELSE Respond(r, q.code, q.rid)
  /\ UNCHANGED <<sessions, attendance, diet_plans, exercise_plans, trainers,
                 next_id, origin>>

\* The lookups of the user and the trainer the response carries, and the
\* return: they read what the response shows of them, which is not part of the
\* response recorded here.
Reply(r) ==
  /\ reqs[r].pc = "reply"
  /\ Respond(r, reqs[r].code, reqs[r].rid)
  /\ UNCHANGED <<sessions, attendance, diet_plans, exercise_plans, trainers,
                 next_id, origin>>

\* The requests, one action per route.  A handler begins here with its first
\* query, r being its unit of work, and goes on in the steps above and in its
\* own later queries.
CreateSession(r, c, p) ==
  \E res \in create_session(c, p) :
    Begin(r, "create_session", "sessions", c, res)
UpdateSession(r, c, id, p) ==
  \E res \in update_session(c, id, p) :
    Begin(r, "update_session", "sessions", c, OnPath(res, id))
DeleteSession(r, c, id) ==
  \E res \in delete_session(c, id) :
    Begin(r, "delete_session", "sessions", c, OnPath(res, id))

\* mark_session_attendance up to its existence query: the session query and
\* the checks.
MarkSessionAttendance(r, c, id, p) ==
  /\ FreeUnit(r)
  /\ IF MarkChecks(c, id, p) # 200
     THEN Refuse("mark_session_attendance", c, MarkChecks(c, id, p), <<>>)
     ELSE /\ reqs' = [reqs EXCEPT ![r] =
                        Querying("mark_session_attendance", "attendance", c,
                                 MarkKey(id, p), NoRow, p)]
          /\ UNCHANGED last
  /\ UNCHANGED <<sessions, attendance, diet_plans, exercise_plans, trainers,
                 next_id, origin>>

\* Its existence query, and the assignment or db.add that follows.
MarkQuery(r) ==
  LET q == reqs[r] IN
  /\ q.pc = "query" /\ q.op = "mark_session_attendance"
  /\ \E res \in MarkWrite(q.key[1], q.p) :
       /\ res.created => HasRoom("attendance")
       /\ reqs' = [reqs EXCEPT ![r] = Staged(q.op, q.table, q.c, res)]
  /\ UNCHANGED <<sessions, attendance, diet_plans, exercise_plans, trainers,
                 next_id, origin, last>>

\* update_session_attendance up to its session query, which only a trainer's
\* request makes: the attendance query, and for any other caller the checks
\* on the row loaded and the assignments.
UpdateSessionAttendance(r, c, id, p) ==
  IF c.role = "trainer" /\ AttendanceById(id) # {}
  THEN /\ FreeUnit(r)
       /\ \E db_attendance \in AttendanceById(id) :
            reqs' = [reqs EXCEPT ![r] =
                       Querying("update_session_attendance", "attendance", c,
                                <<id>>, db_attendance, p)]
       /\ UNCHANGED <<sessions, attendance, diet_plans, exercise_plans,
                      trainers, next_id, origin, last>>
  ELSE \E res \in update_session_attendance(c, id, p) :
         Begin(r, "update_session_attendance", "attendance", c, OnPath(res, id))

\* The assignments of a trainer's update_session_attendance, pending until
\* db.commit().
UpdateHeld(q) ==
  Holding(q.op, q.table, q.c, q.key, 200, "update", q.old,
          UpdatedAttendance(q.c, q.old, q.p), q.old.id)

\* Its session query and the check on it; the assignments follow at once when
\* the payload's user_id is the record's, the query for the user otherwise.
UpdateQuery(r) ==
  LET q == reqs[r] IN
  /\ q.pc = "query" /\ q.op = "update_session_attendance"
  /\ IF TrainerSession(q.c, q.old.session_id) = {}
     THEN Respond(r, 403, 0)
     ELSE /\ reqs' = [reqs EXCEPT ![r] =
                        IF q.p.user_id # q.old.user_id
                        THEN [q EXCEPT !.pc = "lookup"]
                        ELSE UpdateHeld(q)]
          /\ UNCHANGED last
  /\ UNCHANGED <<sessions, attendance, diet_plans, exercise_plans, trainers,
                 next_id, origin>>

\* Its query for the user the record is reassigned to, the check on it and
\* the assignments.
UpdateLookup(r) ==
  LET q == reqs[r] IN
  /\ q.pc = "lookup" /\ q.op = "update_session_attendance"
  /\ IF UserInBranch(q.p.user_id, q.c.branch) = {}
     THEN Respond(r, 404, 0)
     ELSE /\ reqs' = [reqs EXCEPT ![r] = UpdateHeld(q)]
          /\ UNCHANGED last
  /\ UNCHANGED <<sessions, attendance, diet_plans, exercise_plans, trainers,
                 next_id, origin>>

\* delete_session_attendance up to its session query, which only a trainer's
\* request makes.
DeleteSessionAttendance(r, c, id) ==
  IF c.role = "trainer" /\ AttendanceById(id) # {}
  THEN /\ FreeUnit(r)
       /\ \E db_attendance \in AttendanceById(id) :
            reqs' = [reqs EXCEPT ![r] =
                       Querying("delete_session_attendance", "attendance", c,
                                <<id>>, db_attendance, NoRow)]
       /\ UNCHANGED <<sessions, attendance, diet_plans, exercise_plans,
                      trainers, next_id, origin, last>>
  ELSE \E res \in delete_session_attendance(c, id) :
         Begin(r, "delete_session_attendance", "attendance", c, OnPath(res, id))

\* Its session query, the check and db.delete.
DeleteQuery(r) ==
  LET q == reqs[r] IN
  /\ q.pc = "query" /\ q.op = "delete_session_attendance"
  /\ IF DeleteAttendanceChecks(q.c, q.old) # 200
     THEN Respond(r, DeleteAttendanceChecks(q.c, q.old), 0)
     ELSE /\ reqs' = [reqs EXCEPT ![r] =
                        Holding(q.op, q.table, q.c, q.key, 204, "delete",
                                q.old, q.old, 0)]
          /\ UNCHANGED last
  /\ UNCHANGED <<sessions, attendance, diet_plans, exercise_plans, trainers,
                 next_id, origin>>

CreateDietPlan(r, c, p) ==
  \E res \in create_diet_plan(c, p) :
    Begin(r, "create_diet_plan", "diet_plans", c, res)
UpdateDietPlan(r, c, id, p) ==
  \E res \in update_diet_plan(c, id, p) :
    Begin(r, "update_diet_plan", "diet_plans", c, OnPath(res, id))
DeleteDietPlan(r, c, id) ==
  \E res \in delete_diet_plan(c, id) :
    Begin(r, "delete_diet_plan", "diet_plans", c, OnPath(res, id))
CreateExercisePlan(r, c, p) ==
  \E res \in create_exercise_plan(c, p) :
    Begin(r, "create_exercise_plan", "exercise_plans", c, res)
UpdateExercisePlan(r, c, id, p) ==
  \E res \in update_exercise_plan(c, id, p) :
    Begin(r, "update_exercise_plan", "exercise_plans", c, OnPath(res, id))
DeleteExercisePlan(r, c, id) ==
  \E res \in delete_exercise_plan(c, id) :
    Begin(r, "delete_exercise_plan", "exercise_plans", c, OnPath(res, id))
AddTrainer(r, c, p) ==
  \E res \in add_trainer(c, p) :
    Begin(r, "add_trainer", "trainers", c, res)
UpdateTrainer(r, c, id, p) ==
  \E res \in update_trainer(c, id, p) :
    Begin(r, "update_trainer", "trainers", c, res)
DeleteTrainer(r, c, id) ==
  \E res \in delete_trainer(c, id) :
    Begin(r, "delete_trainer", "trainers", c, res)

\* A handler that makes one query and returns what it found.
Answer(op, c, res) ==
  /\ last' = [Response(op, c, res.code, res.rid, res.key)
                EXCEPT !.items = IF "items" \in DOMAIN res
                                 THEN {x.id : x \in res.items} ELSE {}]
  /\ UNCHANGED <<sessions, attendance, diet_plans, exercise_plans, trainers,
                 next_id, origin, reqs>>

GetTrainerSessions(c) ==
  \E res \in get_trainer_sessions(c) : Answer("get_trainer_sessions", c, res)
GetPublicSessions(c) ==
  \E res \in get_public_sessions(c) : Answer("get_public_sessions", c, res)
GetTrainers(c) ==
  \E res \in get_trainers(c) : Answer("get_trainers", c, res)
GetTrainerById(c, id) ==
  \E res \in get_trainer_by_id(c, id) : Answer("get_trainer_by_id", c, res)

\* get_session_attendance up to its query for the records: the session query
\* and the check.
GetSessionAttendance(r, c, id, user_id, attendance_date) ==
  /\ FreeUnit(r)
  /\ \E res \in get_session_attendance(c, id, user_id, attendance_date) :
       IF ~Succeeded(res)
       THEN Refuse("get_session_attendance", c, res.code, res.key)
       ELSE /\ reqs' = [reqs EXCEPT ![r] =
                          Querying("get_session_attendance", "attendance", c,
                                   <<id>>, NoRow,
                                   [user_id |-> user_id,
                                    attendance_date |-> attendance_date])]
            /\ UNCHANGED last
  /\ UNCHANGED <<sessions, attendance, diet_plans, exercise_plans, trainers,
                 next_id, origin>>

\* Its query for the records ("attendance_records = query.all()").
ListQuery(r) ==
  LET q == reqs[r] IN
  /\ q.pc = "query" /\ q.op = "get_session_attendance"
  /\ reqs' = [reqs EXCEPT ![r] =
                Listing(q.op, q.table, q.c, q.key,
                        IF q.c.role = "trainer"
                        THEN TrainerAttendanceQuery(q.key[1], q.p.user_id,
                                                    q.p.attendance_date)
                        ELSE OwnAttendanceQuery(q.c, q.key[1],
                                                q.p.attendance_date))]
  /\ UNCHANGED <<sessions, attendance, diet_plans, exercise_plans, trainers,
                 next_id, origin, last>>

\* A handler that lists plans: the query for the plans ("query.all()"), res
\* being its result; the lookups of the trainer and of each plan's user follow.
List(r, op, table, c, res) ==
  /\ FreeUnit(r)
  /\ IF ~Succeeded(res)
     THEN Refuse(op, c, res.code, res.key)
     ELSE /\ reqs' = [reqs EXCEPT ![r] =
                        Listing(op, table, c, res.key, res.items)]
          /\ UNCHANGED last
  /\ UNCHANGED <<sessions, attendance, diet_plans, exercise_plans, trainers,
                 next_id, origin>>

GetTrainerDietPlans(r, c, user_id) ==
  \E res \in get_trainer_diet_plans(c, user_id) :
    List(r, "get_trainer_diet_plans", "diet_plans", c, res)
GetTrainerExercisePlans(r, c, user_id) ==
  \E res \in get_trainer_exercise_plans(c, user_id) :
    List(r, "get_trainer_exercise_plans", "exercise_plans", c, res)

\* ----------------------------------------------------------- specifications
Init ==
  /\ sessions = {}
  /\ attendance = {}
  /\ diet_plans = {}
  /\ exercise_plans = {}
  /\ trainers = {}
  /\ next_id = [sessions |-> 1, attendance |-> 1, diet_plans |-> 1,
                exercise_plans |-> 1, trainers |-> 1]
  /\ origin = {}
  /\ last = Response("", NoCaller, 0, 0, <<>>)
  /\ reqs = [r \in ReqIds |-> IdleReq]

\* The commit and the refresh of any request in flight.
Finish(r) ==
  \/ CommitInsert(r)
  \/ CommitUpdate(r)
  \/ CommitDelete(r)
  \/ Refresh(r)

\* Session schedules: the requests come from two trainers, one of whom has
\* moved to another branch since.
SessionCreators ==
  { Caller(1, "trainer", "X"), Caller(2, "trainer", "X") }

SessionUpdaters ==
  { Caller(1, "trainer", "Y"), Caller(2, "trainer", "X") }

UpdatedSessionPayloads == SessionPayloads \ BookableSessionPayloads

WrittenSessionIds == 1..MaxSessions

SessionListers == { Caller(2, "trainer", "X") }

NextSessions ==
  \/ \E r \in ReqIds, c \in SessionCreators, p \in BookableSessionPayloads :
       CreateSession(r, c, p)
  \/ \E r \in ReqIds, c \in SessionUpdaters, id \in WrittenSessionIds,
        p \in UpdatedSessionPayloads : UpdateSession(r, c, id, p)
  \/ \E r \in ReqIds, c \in SessionCreators, id \in WrittenSessionIds :
       DeleteSession(r, c, id)
  \/ \E c \in SessionListers : GetTrainerSessions(c) \/ GetPublicSessions(c)
  \/ \E r \in ReqIds : Finish(r)

SpecSessions == Init /\ [][NextSessions]_vars

\* Attendance, on a session that is created and deleted meanwhile.  The
\* attendance handlers read a session's id, trainer_id and branch_name only,
\* which update_session never assigns.
BookableOwners == { Caller(1, "trainer", "X") }

\* The attendance requests: member 4 books, confirms and cancels for
\* themselves; trainer 1 books user 5, reassigns a record to user 5 and
\* deletes.
Booked(user_id) ==
  [user_id |-> user_id, status |-> "booked", attendance_date |-> 1]

Attended(user_id) ==
  [user_id |-> user_id, status |-> "attended", attendance_date |-> 1]

MarkRequests ==
  { <<Caller(4, "member", "X"), Booked(4)>>,
    <<Caller(1, "trainer", "X"), Booked(5)>> }

UpdateRequests ==
  { <<Caller(4, "member", "X"), Attended(4)>>,
    <<Caller(1, "trainer", "X"), Booked(5)>> }

AttendanceWriters ==
  { Caller(1, "trainer", "X"), Caller(4, "member", "X") }

WrittenSessions == 1..MaxBookable
WrittenAttendanceIds == 1..MaxAttendance

\* A session is created while attendance is explored only as long as fewer than
\* MaxBookable were.
CreateBookableSession(r, c, p) ==
  /\ InsertsBegun("sessions") < MaxBookable
  /\ CreateSession(r, c, p)

NextAttendance ==
  \/ \E r \in ReqIds, c \in BookableOwners, p \in BookableSessionPayloads :
       CreateBookableSession(r, c, p)
  \/ \E r \in ReqIds, c \in BookableOwners, id \in WrittenSessions :
       DeleteSession(r, c, id)
  \/ \E r \in ReqIds, q \in MarkRequests, id \in WrittenSessions :
       MarkSessionAttendance(r, q[1], id, q[2])
  \/ \E r \in ReqIds, q \in UpdateRequests, id \in WrittenAttendanceIds :
       UpdateSessionAttendance(r, q[1], id, q[2])
  \/ \E r \in ReqIds, c \in AttendanceWriters, id \in WrittenAttendanceIds :
       DeleteSessionAttendance(r, c, id)
  \/ \E r \in ReqIds : MarkQuery(r)
  \/ \E r \in ReqIds : UpdateQuery(r)
  \/ \E r \in ReqIds : UpdateLookup(r)
  \/ \E r \in ReqIds : DeleteQuery(r)
  \/ \E r \in ReqIds : Finish(r)
  \/ \E r \in ReqIds : Reply(r)

SpecAttendance == Init /\ [][NextAttendance]_vars

\* Attendance marked on a session by trainers and members of two branches;
\* trainer 1 has moved to another branch since creating it, or moves back.
BranchMarks ==
  { <<Caller(1, "trainer", "X"), Booked(5)>>,
    <<Caller(4, "member", "X"), Booked(4)>>,
    <<Caller(6, "member", "Y"), Booked(6)>> }

\* The updates: trainer 1 confirms the record of user 6, or reassigns a
\* record to user 6, who is of another branch.
BranchUpdates == { <<Caller(1, "trainer", "X"), Attended(6)>> }

\* The listings: trainer 1 asks for the records of user 0.
BranchListings == { <<Caller(1, "trainer", "X"), 0, NoParam>> }

NextBranches ==
  \/ \E r \in ReqIds, c \in BookableCreators, p \in BookableSessionPayloads :
       CreateBookableSession(r, c, p)
  \/ \E r \in ReqIds, q \in BranchMarks, id \in WrittenSessions :
       MarkSessionAttendance(r, q[1], id, q[2])
  \/ \E r \in ReqIds, q \in BranchUpdates, id \in WrittenAttendanceIds :
       UpdateSessionAttendance(r, q[1], id, q[2])
  \/ \E r \in ReqIds, q \in BranchListings, id \in WrittenSessions :
       GetSessionAttendance(r, q[1], id, q[2], q[3])
  \/ \E r \in ReqIds : MarkQuery(r)
  \/ \E r \in ReqIds : UpdateQuery(r)
  \/ \E r \in ReqIds : UpdateLookup(r)
  \/ \E r \in ReqIds : ListQuery(r)
  \/ \E r \in ReqIds : CommitInsert(r) \/ CommitUpdate(r) \/ Refresh(r)
  \/ \E r \in ReqIds : Reply(r)

SpecBranches == Init /\ [][NextBranches]_vars

\* Diet and exercise plans: trainer 1 assigns plans to user 4 of the branch
\* and to user 6 of another branch, and changes and deletes them.
PlanOwners == { Caller(1, "trainer", "X") }

Plan(user_id, title) ==
  CHOOSE p \in PlanPayloads : p.user_id = user_id /\ p.title = title

CreatedPlans == {Plan(4, "cut"), Plan(6, "cut")}

UpdatedPlans == {Plan(4, "bulk"), Plan(6, "bulk")}

WrittenPlanIds == 1..(MaxPlans - 1)

NextPlans ==
  \/ \E r \in ReqIds, c \in PlanOwners, p \in CreatedPlans :
       CreateDietPlan(r, c, p)
  \/ \E r \in ReqIds, c \in PlanOwners, id \in WrittenPlanIds,
        p \in UpdatedPlans : UpdateDietPlan(r, c, id, p)
  \/ \E r \in ReqIds, c \in PlanOwners, id \in WrittenPlanIds :
       DeleteDietPlan(r, c, id)
  \/ \E r \in ReqIds, c \in PlanOwners, p \in CreatedPlans :
       CreateExercisePlan(r, c, p)
  \/ \E r \in ReqIds, c \in PlanOwners, id \in WrittenPlanIds,
        p \in UpdatedPlans : UpdateExercisePlan(r, c, id, p)
  \/ \E r \in ReqIds, c \in PlanOwners, id \in WrittenPlanIds :
       DeleteExercisePlan(r, c, id)
  \/ \E r \in ReqIds, c \in PlanOwners : GetTrainerDietPlans(r, c, NoParam)
  \/ \E r \in ReqIds, c \in PlanOwners : GetTrainerExercisePlans(r, c, NoParam)
  \/ \E r \in ReqIds : Finish(r)
  \/ \E r \in ReqIds : Reply(r)

SpecPlans == Init /\ [][NextPlans]_vars

\* Trainer records: a superadmin and an admin add trainers; the three routes
\* that declare no caller are called without one.
Trainer(email, branch_name) ==
  CHOOSE p \in TrainerPayloads : p.email = email /\ p.branch_name = branch_name

AddRequests ==
  { <<Caller(8, "superadmin", NoBranch), Trainer("a@gym", "Y")>>,
    <<Caller(7, "admin", "X"), Trainer("b@gym", "Y")>> }

TrainerListers == { Caller(7, "admin", "X") }

TrainerUpdates == { Trainer("b@gym", "X") }

WrittenTrainerIds == 1..(MaxTrainers - 1)

NextTrainers ==
  \/ \E r \in ReqIds, q \in AddRequests : AddTrainer(r, q[1], q[2])
  \/ \E c \in TrainerListers : GetTrainers(c)
  \/ \E id \in WrittenTrainerIds : GetTrainerById(NoCaller, id)
  \/ \E r \in ReqIds, id \in WrittenTrainerIds, p \in TrainerUpdates :
       UpdateTrainer(r, NoCaller, id, p)
  \/ \E r \in ReqIds, id \in WrittenTrainerIds :
       DeleteTrainer(r, NoCaller, id)
  \/ \E r \in ReqIds : Finish(r)

SpecTrainers == Init /\ [][NextTrainers]_vars

\* All tables together on few inputs: every route that writes, called by the
\* owner of the sessions and plans, another trainer, a member or an admin.
Inserted ==
  InsertsBegun("sessions") + InsertsBegun("attendance")
    + InsertsBegun("diet_plans") + InsertsBegun("exercise_plans")
    + InsertsBegun("trainers")

\* An insert is explored only within MaxRows, all tables together.
WithinRows == Inserted < MaxRows

Owner == Caller(1, "trainer", "X")
OtherTrainer == Caller(2, "trainer", "X")
Member == Caller(4, "member", "X")
Admin == Caller(7, "admin", "X")

\* The existence query of the mark in flight finds no record.
MarkInserts(r) ==
  /\ reqs[r].pc = "query" /\ reqs[r].op = "mark_session_attendance"
  /\ ExistingAttendance(reqs[r].key[1], reqs[r].p) = {}

\* The email query of add_trainer finds no trainer.
AddInserts ==
  \E res \in add_trainer(Admin, Trainer("a@gym", "X")) : res.created

NextWrites ==
  \/ \E r \in ReqIds, p \in BookableSessionPayloads :
       WithinRows /\ CreateSession(r, Owner, p)
  \/ \E r \in ReqIds, p \in UpdatedSessionPayloads :
       UpdateSession(r, OtherTrainer, 1, p)
  \/ \E r \in ReqIds, c \in {Owner, Member} : DeleteSession(r, c, 1)
  \/ \E r \in ReqIds : MarkSessionAttendance(r, Member, 1, Booked(4))
  \/ \E r \in ReqIds : (MarkInserts(r) => WithinRows) /\ MarkQuery(r)
  \/ \E r \in ReqIds : UpdateSessionAttendance(r, Owner, 1, Attended(5))
  \/ \E r \in ReqIds : UpdateQuery(r)
  \/ \E r \in ReqIds : UpdateLookup(r)
  \/ \E r \in ReqIds : DeleteSessionAttendance(r, Owner, 1)
  \/ \E r \in ReqIds : DeleteQuery(r)
  \/ \E r \in ReqIds : WithinRows /\ CreateDietPlan(r, Owner, Plan(4, "cut"))
  \/ \E r \in ReqIds : UpdateDietPlan(r, Owner, 1, Plan(4, "bulk"))
  \/ \E r \in ReqIds : DeleteDietPlan(r, Owner, 1)
  \/ \E r \in ReqIds : WithinRows /\ CreateExercisePlan(r, Owner, Plan(4, "cut"))
  \/ \E r \in ReqIds : UpdateExercisePlan(r, Owner, 1, Plan(6, "bulk"))
  \/ \E r \in ReqIds : DeleteExercisePlan(r, Owner, 1)
  \/ \E r \in ReqIds :
       (AddInserts => WithinRows) /\ AddTrainer(r, Admin, Trainer("a@gym", "X"))
  \/ \E r \in ReqIds : UpdateTrainer(r, Admin, 1, Trainer("b@gym", "X"))
  \/ \E r \in ReqIds : DeleteTrainer(r, Admin, 1)
  \/ \E r \in ReqIds : Finish(r)
  \/ \E r \in ReqIds : Reply(r)

SpecWrites == Init /\ [][NextWrites]_vars

\* ------------------------------------------------------------------- claims
SameTuple(a, b) ==
  /\ a.session_id = b.session_id
  /\ a.user_id = b.user_id
  /\ a.attendance_date = b.attendance_date

Authenticated(c) == c # NoCaller

\* C1: in every reachable state the attendance store holds at most one record
\* per (session_id, user_id, attendance_date), whatever marks, updates and
\* deletes were made.
C1_OneRecordPerTuple ==
  \A a, b \in attendance : SameTuple(a, b) => a = b

\* A request of the handler op is answered in this step.
Answers(r, op) ==
  /\ reqs[r].op = op
  /\ reqs[r].pc # "idle"
  /\ reqs'[r].pc = "idle"

\* The latest response is a successful mark and carries a record of the tuple
\* it marked, which is the only record of that tuple: the tuple had at most one
\* record when the call was made.
MarkReturned ==
  /\ last.op = "mark_session_attendance" /\ Succeeded(last)
  /\ \E a \in attendance :
       /\ a.id = last.rid
       /\ Matching(attendance, last.key[1], last.key[2], last.key[3]) = {a}

\* Marking again what the latest response marked leaves exactly one record for
\* the tuple, returns the id that response carried, and leaves the record with
\* the status submitted.
MarkAgainKeepsOne ==
  \A c \in AttendanceCallers, p \in AttendancePayloads :
    MarkKey(last.key[1], p) = last.key =>
      \A r \in mark_session_attendance(c, last.key[1], p) :
        Succeeded(r) =>
          /\ Cardinality(Matching(r.rows, last.key[1], p.user_id,
                                  p.attendance_date)) = 1
          /\ r.rid = last.rid
          /\ \A a \in Matching(r.rows, last.key[1], p.user_id,
                               p.attendance_date) : a.status = p.status

\* C2: when a mark_session_attendance call on a tuple (session_id, user_id,
\* attendance_date) that had at most one record has returned successfully, a
\* second successful call made next with the same tuple leaves exactly one
\* record for that tuple, returns the id the first call returned, and leaves
\* the record with the status it submitted.
C2_MarkTwiceLeavesOneRecord ==
  [][(\E r \in ReqIds : Answers(r, "mark_session_attendance")) /\ MarkReturned'
       => MarkAgainKeepsOne']_vars

\* A mark has returned a record, the only one of its tuple, and the next mark
\* of that tuple, no other request being in flight, has found that record and
\* assigned its status.
C2_Witness ==
  /\ MarkReturned
  /\ \E r \in ReqIds :
       /\ reqs[r].op = "mark_session_attendance" /\ reqs[r].pc = "commit"
       /\ reqs[r].kind = "update"
       /\ reqs[r].key = last.key
       /\ reqs[r].old.id = last.rid
       /\ \A q \in ReqIds \ {r} : reqs[q].pc = "idle"

\* C3: when mark_session_attendance requests for the same tuple interleave,
\* each with its own existence query and insert, then once no request is in
\* flight there are no two attendance records for one tuple.
C3_InterleavedMarksLeaveOneRecord ==
  (\A r \in ReqIds : reqs[r].pc = "idle") =>
    \A a, b \in attendance : SameTuple(a, b) => a.id = b.id

\* C4: every session has the trainer_id and branch_name of the trainer context
\* that created it, at creation and after any update_session.
C4_SessionKeepsTrainerAndBranch ==
  \A s \in sessions :
    \E o \in origin :
      /\ o.kind = "session" /\ o.id = s.id
      /\ s.trainer_id = o.by
      /\ s.branch_name = o.by_branch

\* A session was updated by its trainer, whose branch is no longer the one the
\* session was created in.
C4_Witness ==
  /\ last.op = "update_session" /\ Succeeded(last)
  /\ \E s \in sessions : s.id = last.rid /\ s.branch_name # last.by.branch

\* The request r commits in this step.
Commits(r) == reqs[r].pc = "commit" /\ reqs'[r].pc # "commit"

\* C5: for an authenticated caller who is not a trainer, marking with a
\* payload user_id other than the caller's id, updating a record of another
\* user or with a payload user_id other than the caller's id, and deleting a
\* record of another user are each rejected with 403 and leave the attendance
\* store as it was (marking on a session id that names no session is rejected
\* with 404, the store as it was).
C5_MemberCannotWriteOthersAttendance ==
  \A c \in AttendanceCallers :
    (Authenticated(c) /\ c.role # "trainer") =>
      /\ \A id \in BookableSessionIds, p \in AttendancePayloads :
           p.user_id # c.id =>
             \A r \in mark_session_attendance(c, id, p) :
               /\ r.rows = attendance
               /\ r.code = IF SessionById(id) = {} THEN 404 ELSE 403
      /\ \A a \in attendance, p \in AttendancePayloads :
           (a.user_id # c.id \/ p.user_id # c.id) =>
             \A r \in update_session_attendance(c, a.id, p) :
               r.rows = attendance /\ r.code = 403
      /\ \A a \in attendance :
           a.user_id # c.id =>
             \A r \in delete_session_attendance(c, a.id) :
               r.rows = attendance /\ r.code = 403

\* A member was refused the update of a record of another user, which is
\* stored as it was.
C5_Witness ==
  /\ last.op = "update_session_attendance" /\ last.code = 403
  /\ last.by.role = "member"
  /\ \E a \in attendance : <<a.id>> = last.key /\ a.user_id # last.by.id

\* C6: create_diet_plan and create_exercise_plan by a trainer for a user_id
\* that names no user, or a user of another branch, are rejected with 404 and
\* create nothing; so every stored plan was assigned to a user whose branch was
\* the assigning trainer's branch, which is the plan's branch_name.
C6_PlanSubjectInTrainersBranch ==
  /\ \A c \in PlanCallers, p \in PlanPayloads :
       ( /\ Authenticated(c) /\ c.role = "trainer"
         /\ ~ \E u \in users : u.id = p.user_id /\ u.branch = c.branch ) =>
         /\ \A r \in create_diet_plan(c, p) :
              r.code = 404 /\ r.rows = diet_plans
         /\ \A r \in create_exercise_plan(c, p) :
              r.code = 404 /\ r.rows = exercise_plans
  /\ \A kind \in {"diet", "exercise"} :
       \A d \in (IF kind = "diet" THEN diet_plans ELSE exercise_plans) :
         \E o \in origin :
           /\ o.kind = kind /\ o.id = d.id
           /\ o.by = d.assigned_by_trainer_id
           /\ o.user_branch = o.by_branch
           /\ o.by_branch = d.branch_name

\* A trainer was refused a plan for a user outside the branch while a plan is
\* stored.
C6_Witness ==
  /\ last.op \in {"create_diet_plan", "create_exercise_plan"}
  /\ last.code = 404 /\ last.by.role = "trainer"
  /\ diet_plans \cup exercise_plans # {}

\* C7: update_diet_plan and update_exercise_plan by the trainer who owns the
\* plan (the plan is the one the handler's lookup by id, assigning trainer and
\* branch finds for the caller), with a payload user_id other than the plan's,
\* are rejected with 400 and leave the plan as it was.
C7_SubjectChangeRejected ==
  \A c \in PlanCallers, p \in PlanPayloads :
    (Authenticated(c) /\ c.role = "trainer") =>
      /\ \A d \in diet_plans :
           ( /\ d.assigned_by_trainer_id = c.id /\ d.branch_name = c.branch
             /\ p.user_id # d.user_id ) =>
             \A r \in update_diet_plan(c, d.id, p) :
               r.code = 400 /\ r.rows = diet_plans
      /\ \A d \in exercise_plans :
           ( /\ d.assigned_by_trainer_id = c.id /\ d.branch_name = c.branch
             /\ p.user_id # d.user_id ) =>
             \A r \in update_exercise_plan(c, d.id, p) :
               r.code = 400 /\ r.rows = exercise_plans

\* An update of a plan was rejected with 400.
C7_Witness ==
  /\ last.op \in {"update_diet_plan", "update_exercise_plan"}
  /\ last.code = 400
  /\ diet_plans \cup exercise_plans # {}

\* C8: every diet plan and exercise plan has the user_id it was created with.
C8_PlanSubjectImmutable ==
  \A kind \in {"diet", "exercise"} :
    \A d \in (IF kind = "diet" THEN diet_plans ELSE exercise_plans) :
      \E o \in origin : o.kind = kind /\ o.id = d.id /\ d.user_id = o.user_id

\* A plan was updated and is stored.
C8_Witness ==
  /\ last.op \in {"update_diet_plan", "update_exercise_plan"}
  /\ Succeeded(last)
  /\ \E d \in diet_plans \cup exercise_plans : d.id = last.rid

\* C9: a request that carries no valid caller context fails with 401 and
\* changes nothing; in particular get_trainer_by_id, update_trainer and
\* delete_trainer read, update and delete no trainer for it.  Stated as what
\* the claim excludes: no request without a caller succeeds.
C9_NoCallerNoAccess ==
  (last.op # "" /\ ~Authenticated(last.by)) => ~Succeeded(last)

\* What update_session and delete_session decide: they change or remove a
\* session only for a caller who is a trainer with the session's trainer_id,
\* and only the session named in the request.
OwnerOnlyDecided ==
  \A c \in SessionCallers, id \in SessionIds :
    /\ \A p \in SessionPayloads :
         \A r \in update_session(c, id, p) :
           \A s \in sessions :
             s \notin r.rows =>
               c.role = "trainer" /\ c.id = s.trainer_id /\ s.id = id
    /\ \A r \in delete_session(c, id) :
         \A s \in sessions :
           s \notin r.rows =>
             c.role = "trainer" /\ c.id = s.trainer_id /\ s.id = id

\* A step changes or removes a session only as the commit of an update_session
\* or delete_session request on that session, made by a trainer with the
\* session's trainer_id.
OwnerOnlyCommitted ==
  \A s \in sessions :
    s \notin sessions' =>
      \E r \in ReqIds :
        /\ Commits(r)
        /\ reqs[r].op \in {"update_session", "delete_session"}
        /\ reqs[r].key = <<s.id>>
        /\ reqs[r].c.role = "trainer" /\ reqs[r].c.id = s.trainer_id

\* C10: update_session and delete_session change or remove a session only for
\* a caller who is a trainer with the session's trainer_id, and only the
\* session named in the request, also when requests are in flight together.
C10_OnlyOwnerChangesSession ==
  []OwnerOnlyDecided /\ [][OwnerOnlyCommitted]_vars

\* A trainer deleted their session while a session of another trainer is
\* stored.
C10_Witness ==
  /\ last.op = "delete_session" /\ Succeeded(last)
  /\ \E s \in sessions : s.trainer_id # last.by.id

\* The plans of a kind.
PlansOf(kind) == IF kind = "diet" THEN diet_plans ELSE exercise_plans

\* update_diet_plan / update_exercise_plan and delete_diet_plan /
\* delete_exercise_plan, by kind.
UpdatePlan(kind, c, id, p) ==
  IF kind = "diet" THEN update_diet_plan(c, id, p)
  ELSE update_exercise_plan(c, id, p)

DeletePlan(kind, c, id) ==
  IF kind = "diet" THEN delete_diet_plan(c, id) ELSE delete_exercise_plan(c, id)

\* The caller is a trainer who owns the session with that id.
OwnsSession(c, id) ==
  c.role = "trainer" /\ \E s \in sessions : s.id = id /\ s.trainer_id = c.id

\* The caller is a trainer who assigned the plan d in the branch the caller is in.
OwnsPlan(c, d) ==
  /\ c.role = "trainer"
  /\ d.assigned_by_trainer_id = c.id
  /\ d.branch_name = c.branch

\* The caller may write the attendance record a: a trainer, when a's session is
\* the caller's own in the caller's branch; anyone else, when a is their own.
MayWriteAttendance(c, a) ==
  IF c.role = "trainer"
  THEN \E s \in sessions : /\ s.id = a.session_id /\ s.trainer_id = c.id
                           /\ s.branch_name = c.branch
  ELSE a.user_id = c.id

\* C11 as stated: for a caller the route admits, update and delete of a
\* session, a plan and an attendance record answer 404 when no resource has
\* the given id, and 403 when the resource exists but is not the caller's to
\* write.
C11_NotFoundThenForbidden ==
  \A c \in Callers :
    /\ c.role = "trainer" =>
         /\ \A id \in SessionIds :
              \A r \in UNION {update_session(c, id, p) : p \in SessionPayloads}
                         \cup delete_session(c, id) :
                /\ (\A s \in sessions : s.id # id) => r.code = 404
                /\ ((\E s \in sessions : s.id = id) /\ ~OwnsSession(c, id)) =>
                     r.code = 403
         /\ \A kind \in {"diet", "exercise"}, id \in PlanIds :
              \A r \in UNION {UpdatePlan(kind, c, id, p) : p \in PlanPayloads}
                         \cup DeletePlan(kind, c, id) :
                /\ (\A d \in PlansOf(kind) : d.id # id) => r.code = 404
                /\ (\E d \in PlansOf(kind) : d.id = id /\ ~OwnsPlan(c, d)) =>
                     r.code = 403
    /\ \A id \in AttendanceIds :
         \A r \in UNION {update_session_attendance(c, id, p) :
                           p \in AttendancePayloads}
                    \cup delete_session_attendance(c, id) :
           /\ (\A a \in attendance : a.id # id) => r.code = 404
           /\ (\E a \in attendance : a.id = id /\ ~MayWriteAttendance(c, a)) =>
                r.code = 403

\* C11 as amended: update and delete of an attendance record answer 404 when
\* no record has the given id and 403 when the record exists but is not the
\* caller's to write (for an update by a non-trainer, also when the payload
\* names another user).  Update and delete of a session or a plan answer 403
\* to a caller who is not a trainer, whether the resource exists or not, and to
\* a trainer 404 both when no resource has the given id and when it exists but
\* is not the caller's, never 403.
C11_NotFoundHidesForbidden ==
  \A c \in Callers :
    /\ \A id \in SessionIds :
         \A r \in UNION {update_session(c, id, p) : p \in SessionPayloads}
                    \cup delete_session(c, id) :
           /\ c.role # "trainer" => r.code = 403
           /\ c.role = "trainer" =>
                /\ r.code # 403
                /\ r.code = 404 <=> ~OwnsSession(c, id)
    /\ \A kind \in {"diet", "exercise"}, id \in PlanIds :
         \A r \in UNION {UpdatePlan(kind, c, id, p) : p \in PlanPayloads}
                    \cup DeletePlan(kind, c, id) :
           /\ c.role # "trainer" => r.code = 403
           /\ c.role = "trainer" =>
                /\ r.code # 403
                /\ r.code = 404 <=>
                     ~ \E d \in PlansOf(kind) : d.id = id /\ OwnsPlan(c, d)
    /\ \A id \in AttendanceIds :
         /\ \A p \in AttendancePayloads :
              \A r \in update_session_attendance(c, id, p) :
                /\ (\A a \in attendance : a.id # id) => r.code = 404
                /\ \A a \in attendance :
                     a.id = id =>
                       /\ ~MayWriteAttendance(c, a) => r.code = 403
                       /\ (c.role # "trainer" /\ p.user_id # c.id) =>
                            r.code = 403
                       /\ r.code = 403 =>
                            \/ ~MayWriteAttendance(c, a)
                            \/ c.role # "trainer" /\ p.user_id # c.id
         /\ \A r \in delete_session_attendance(c, id) :
              /\ (\A a \in attendance : a.id # id) => r.code = 404
              /\ \A a \in attendance :
                   a.id = id => (r.code = 403 <=> ~MayWriteAttendance(c, a))

\* A trainer was answered 404 on the update of a session that exists and is
\* another trainer's, while an attendance record is stored.
C11_Witness ==
  /\ last.op = "update_session" /\ last.code = 404
  /\ last.by.role = "trainer"
  /\ \E s \in sessions : <<s.id>> = last.key /\ s.trainer_id # last.by.id
  /\ attendance # {}

\* C12: every stored attendance record's subject is a user whose branch is
\* the branch_name of the record's session: mark_session_attendance creates no
\* record for a caller of another branch than the session's.
C12_SubjectInSessionBranch ==
  \A a \in attendance :
    \A s \in sessions :
      s.id = a.session_id =>
        \E u \in users : u.id = a.user_id /\ u.branch = s.branch_name

\* A user with that id exists in the caller's branch.
SubjectInCallersBranch(c, user_id) ==
  \E u \in users : u.id = user_id /\ u.branch = c.branch

\* What C13 says of update_session_attendance by the trainer c: it succeeds
\* only on a record of a session of c, changes user_id only to a user in c's
\* branch and writes no other record; otherwise the store is unchanged.
TrainerUpdatesOwnSession(c) ==
  \A a \in attendance, p \in AttendancePayloads :
    \A r \in update_session_attendance(c, a.id, p) :
      /\ Succeeded(r) =>
           /\ \E s \in sessions : s.id = a.session_id /\ s.trainer_id = c.id
           /\ p.user_id # a.user_id => SubjectInCallersBranch(c, p.user_id)
           /\ r.rows \ {b \in r.rows : b.id = a.id} = attendance \ {a}
      /\ ~Succeeded(r) => r.rows = attendance

\* C13 as stated: mark_session_attendance by a trainer succeeds exactly when
\* the session's trainer_id is the caller's id and the subject is a user in the
\* caller's branch, update_session_attendance by a trainer is as above, and a
\* call that does not succeed leaves the attendance store unchanged.
C13_TrainerWritesOwnSession ==
  \A c \in AttendanceCallers :
    c.role = "trainer" =>
      /\ \A id \in BookableSessionIds, p \in AttendancePayloads :
           \A r \in mark_session_attendance(c, id, p) :
             /\ Succeeded(r) <=>
                  /\ \E s \in sessions : s.id = id /\ s.trainer_id = c.id
                  /\ SubjectInCallersBranch(c, p.user_id)
             /\ ~Succeeded(r) => r.rows = attendance
      /\ TrainerUpdatesOwnSession(c)

\* C13 as amended: mark_session_attendance by a trainer succeeds exactly when
\* the session's trainer_id is the caller's id, the session's branch_name is
\* the caller's branch and the subject is a user in the caller's branch; the
\* rest as stated.
C13_TrainerWritesOwnSessionInBranch ==
  \A c \in AttendanceCallers :
    c.role = "trainer" =>
      /\ \A id \in BookableSessionIds, p \in AttendancePayloads :
           \A r \in mark_session_attendance(c, id, p) :
             /\ Succeeded(r) <=>
                  /\ \E s \in sessions : /\ s.id = id /\ s.trainer_id = c.id
                                          /\ s.branch_name = c.branch
                  /\ SubjectInCallersBranch(c, p.user_id)
             /\ ~Succeeded(r) => r.rows = attendance
      /\ TrainerUpdatesOwnSession(c)

\* A trainer was refused the mark on a session they created in another branch
\* than the one they are in now, while a record is stored.
C13_Witness ==
  /\ last.op = "mark_session_attendance" /\ last.code = 403
  /\ last.by.role = "trainer"
  /\ \E s \in sessions :
       s.trainer_id = last.by.id /\ s.branch_name # last.by.branch
  /\ attendance # {}

\* C14: get_session_attendance on an existing session returns to a caller who
\* is not a trainer only records of that session with the caller's user_id,
\* whatever user_id parameter is passed; to the trainer who owns the session
\* (its trainer_id and branch_name are the caller's) exactly the session's
\* records that match the user_id and attendance_date parameters that were
\* passed; and to any other trainer no records.
C14_AttendanceListing ==
  \A c \in AttendanceCallers, s \in sessions :
    Authenticated(c) =>
      \A user_id \in UserIdParams, attendance_date \in DateParams :
        \A r \in get_session_attendance(c, s.id, user_id, attendance_date) :
          IF c.role # "trainer"
          THEN Succeeded(r) =>
                 \A a \in r.items : a.session_id = s.id /\ a.user_id = c.id
          ELSE IF s.trainer_id = c.id /\ s.branch_name = c.branch
          THEN /\ Succeeded(r)
               /\ r.items =
                    {a \in attendance :
                       /\ a.session_id = s.id
                       /\ user_id # NoParam => a.user_id = user_id
                       /\ attendance_date # NoParam =>
                            a.attendance_date = attendance_date}
          ELSE ~Succeeded(r)

\* An admin whose branch is not set.
BranchlessAdmin == Caller(9, "admin", NoBranch)

\* C15: get_trainers returns to an admin exactly the trainers of the admin's
\* branch, to a superadmin every trainer, to any other authenticated caller
\* who has a branch exactly the trainers of that branch, and answers 400 to an
\* admin who has no branch.
C15_TrainersListedByBranch ==
  \A c \in Callers \cup {BranchlessAdmin} :
    \A r \in get_trainers(c) :
      /\ r.rows = trainers
      /\ (c.role = "admin" /\ c.branch = NoBranch) => r.code = 400
      /\ (c.role = "superadmin") =>
           Succeeded(r) /\ {t.id : t \in r.items} = {t.id : t \in trainers}
      /\ (c.role # "superadmin" /\ c.branch # NoBranch) =>
           /\ Succeeded(r)
           /\ {t.id : t \in r.items} =
                {t.id : t \in {u \in trainers : u.branch_name = c.branch}}
           /\ \A t \in r.items : t.branch_name = c.branch

\* An admin listed the trainers while trainers of the admin's branch and of
\* another branch are stored.
C15_Witness ==
  /\ last.op = "get_trainers" /\ Succeeded(last)
  /\ last.by.role = "admin"
  /\ \E t, u \in trainers :
       t.branch_name = last.by.branch /\ u.branch_name # last.by.branch

\* C16: add_trainer creates a trainer only for an admin or a superadmin, and
\* answers 403 to any other authenticated caller, creating nothing; the
\* trainer an admin creates has the admin's branch as branch_name, whatever
\* the payload names, and the one a superadmin creates has the payload's.
C16_TrainerAddedByAdminInBranch ==
  \A c \in Callers \cup {BranchlessAdmin}, p \in TrainerPayloads :
    \A r \in add_trainer(c, p) :
      /\ c.role \notin {"admin", "superadmin"} =>
           r.code = 403 /\ r.rows = trainers /\ ~r.created
      /\ r.created =>
           /\ c.role \in {"admin", "superadmin"}
           /\ \E t \in r.rows :
                /\ r.rows \ {t} = trainers
                /\ t \notin trainers
                /\ t.id = r.rid
                /\ t.email = p.email
                /\ t.branch_name =
                     IF c.role = "admin" THEN c.branch ELSE p.branch_name
      /\ ~r.created => r.rows = trainers

\* An admin added a trainer, who is stored with the admin's branch, after a
\* superadmin added one to another branch.
C16_Witness ==
  /\ last.op = "add_trainer" /\ Succeeded(last)
  /\ last.by.role = "admin"
  /\ \E t, u \in trainers :
       /\ t.id = last.rid /\ t.branch_name = last.by.branch
       /\ u.branch_name # last.by.branch

\* The results of the session routes for trainers, and of the diet and exercise
\* plan routes, called by c with every request explored.
SessionRouteResults(c) ==
  UNION ( {create_session(c, p) : p \in SessionPayloads}
          \cup {get_trainer_sessions(c)}
          \cup {update_session(c, id, p) : id \in SessionIds, p \in SessionPayloads}
          \cup {delete_session(c, id) : id \in SessionIds} )

DietPlanRouteResults(c) ==
  UNION ( {create_diet_plan(c, p) : p \in PlanPayloads}
          \cup {get_trainer_diet_plans(c, u) : u \in UserIdParams}
          \cup {update_diet_plan(c, id, p) : id \in PlanIds, p \in PlanPayloads}
          \cup {delete_diet_plan(c, id) : id \in PlanIds} )

ExercisePlanRouteResults(c) ==
  UNION ( {create_exercise_plan(c, p) : p \in PlanPayloads}
          \cup {get_trainer_exercise_plans(c, u) : u \in UserIdParams}
          \cup {update_exercise_plan(c, id, p) :
                  id \in PlanIds, p \in PlanPayloads}
          \cup {delete_exercise_plan(c, id) : id \in PlanIds} )

\* C17: create, list-own, update and delete of sessions, and create, list,
\* update and delete of diet plans and exercise plans, called by an
\* authenticated member, admin or superadmin, each answer 403 and leave
\* sessions and plans as they were.
C17_TrainerOnlyRoutes ==
  \A c \in Callers \cup {BranchlessAdmin} :
    c.role \in {"member", "admin", "superadmin"} =>
      /\ \A r \in SessionRouteResults(c) :
           r.code = 403 /\ r.rows = sessions /\ ~r.created
      /\ \A r \in DietPlanRouteResults(c) :
           r.code = 403 /\ r.rows = diet_plans /\ ~r.created
      /\ \A r \in ExercisePlanRouteResults(c) :
           r.code = 403 /\ r.rows = exercise_plans /\ ~r.created

\* A member was answered 403 on the delete of a session that exists, while a
\* plan is stored.
C17_Witness ==
  /\ last.op = "delete_session" /\ last.code = 403
  /\ last.by.role = "member"
  /\ \E s \in sessions : <<s.id>> = last.key
  /\ diet_plans \cup exercise_plans # {}

\* The results of the attendance routes and of the trainer routes, called by c
\* with every request explored.
AttendanceRouteResults(c) ==
  UNION ( {mark_session_attendance(c, id, p) :
             id \in BookableSessionIds, p \in AttendancePayloads}
          \cup {get_session_attendance(c, id, u, d) :
                  id \in BookableSessionIds, u \in UserIdParams, d \in DateParams}
          \cup {update_session_attendance(c, id, p) :
                  id \in AttendanceIds, p \in AttendancePayloads}
          \cup {delete_session_attendance(c, id) : id \in AttendanceIds} )

TrainerRouteResults(c) ==
  UNION ( {add_trainer(c, p) : p \in TrainerPayloads}
          \cup {get_trainers(c)}
          \cup {get_trainer_by_id(c, id) : id \in TrainerIds}
          \cup {update_trainer(c, id, p) : id \in TrainerIds, p \in TrainerPayloads}
          \cup {delete_trainer(c, id) : id \in TrainerIds} )

\* An error outcome.
Failed(r) == r.code \in {400, 401, 403, 404}

\* C18: a request that ends in 401, 403, 404 or 400 leaves every stored record
\* as it was: the table the handler writes is committed unchanged and nothing
\* is inserted (a handler writes no other table, and none writes users).
C18_ErrorsChangeNothing ==
  \A c \in Callers \cup {BranchlessAdmin, NoCaller} :
    /\ \A r \in SessionRouteResults(c) \cup get_public_sessions(c) :
         Failed(r) => r.rows = sessions /\ ~r.created /\ r.origin = origin
    /\ \A r \in AttendanceRouteResults(c) :
         Failed(r) => r.rows = attendance /\ ~r.created
    /\ \A r \in DietPlanRouteResults(c) :
         Failed(r) => r.rows = diet_plans /\ ~r.created /\ r.origin = origin
    /\ \A r \in ExercisePlanRouteResults(c) :
         Failed(r) => r.rows = exercise_plans /\ ~r.created /\ r.origin = origin
    /\ \A r \in TrainerRouteResults(c) :
         Failed(r) => r.rows = trainers /\ ~r.created

\* The update of an exercise plan that exists was answered 400, while a session
\* is stored.
C18_Witness ==
  /\ last.op = "update_exercise_plan" /\ last.code = 400
  /\ \E d \in exercise_plans : <<d.id>> = last.key
  /\ sessions # {}

\* C19: every stored attendance record's session_id is the id of a stored
\* session; in particular none is left for a session that delete_session
\* removed.
C19_AttendanceRefersToSession ==
  \A a \in attendance : \E s \in sessions : s.id = a.session_id

\* C20: no two stored trainers have the same email, whatever add_trainer,
\* update_trainer and delete_trainer calls were made.
C20_TrainerEmailsDistinct ==
  \A t, u \in trainers : t.email = u.email => t.id = u.id

====
